---- MODULE Spec2Model ----
(***************************************************************************)
(* A model of the DataStorage client (src/src/DataStorage.js), its result  *)
(* types (src/unnamed/part_007) and the authoritative store it talks to.   *)
(*                                                                         *)
(* Records are the values [_created, _modified, val]; val stands for the   *)
(* payload a DSDataRecord subclass adds.  Object identity, which the code  *)
(* uses in Array.indexOf, is carried by the argument of a call: an `inst`  *)
(* with alias = i > 0 is the very object stored at index i of its type's   *)
(* container, an inst with alias = 0 is an object that is in no container. *)
(***************************************************************************)
EXTENDS Integers, Sequences, FiniteSets, TLC

\* ------------------------------------------------------------ bounds
MaxClock == 2       \* Date.now() ranges over 1..MaxClock
MaxCalls == 4       \* direct calls of record store methods in one run
MaxOps == 3         \* public calls (init, save, edit, sync, reload) in one run
MaxReconciles == 2  \* reconcile queries in one run of the reconciler alone
MaxHeld == 2        \* records in a data file the reconciler starts from

\* ------------------------------------------------ configuration, values
\* The `types` argument of the constructor, in the order given.
TypeList == <<"A", "B">>
TypeNames == {TypeList[i] : i \in 1..Len(TypeList)}
\* A class that was not passed to the constructor.
OtherType == "X"
Clients == {1, 2}
\* The asynchronous calls that can be in flight at once.
Procs == {1, 2}
\* JavaScript's `undefined`, where the code reads a property that is not there.
Undefined == -1
\* Payloads, and the `_created` values a caller's own record may carry.
Vals == {0, 1}
\* The payload of the objects given to save and of those given to edit.
SavedVals == {0}
EditedVals == {1}
Ids == 1..MaxClock

SeqToSet(s) == {s[i] : i \in 1..Len(s)}

\* ------------------------------------------------------------ records
\* DSDataRecord: constructor and the payload of a subclass.
Record(c, m, v) == [_created |-> c, _modified |-> m, val |-> v]
\* The object literal pushed to a `_deleted` container.
Tombstone(c, d) == [_created |-> c, _deleted |-> d]
IsTombstone(el) == "_deleted" \in DOMAIN el
\* DSDataRecord `get id()`; a tombstone is a plain object without the getter.
IdOf(el) == IF IsTombstone(el) THEN Undefined ELSE el._created
\* Property read `inst._deleted` on a data record, which defines no such field.
DeletedOf(el) == IF IsTombstone(el) THEN el._deleted ELSE Undefined

MutStdSortKeepsOrder(a, b) == 0
\* stdSort: b.id - a.id; with an undefined id the difference is NaN, which
\* Array.prototype.sort takes as +0.
stdSort(a, b) ==
    IF IdOf(a) = Undefined \/ IdOf(b) = Undefined THEN 0 ELSE IdOf(b) - IdOf(a)

\* Array.prototype.sort(stdSort): a stable sort, here by insertion.
RECURSIVE InsertSorted(_, _)
InsertSorted(s, x) ==
    IF s = <<>> THEN <<x>>
    ELSE LET l == s[Len(s)] IN
         IF stdSort(l, x) > 0
            THEN Append(InsertSorted(SubSeq(s, 1, Len(s) - 1), x), l)
            ELSE Append(s, x)

RECURSIVE Sort(_)
Sort(s) == IF s = <<>> THEN <<>>
           ELSE InsertSorted(Sort(SubSeq(s, 1, Len(s) - 1)), s[Len(s)])

\* Array.prototype.findIndex(el => el.id === id): first index, 0 when none.
FindIndexById(container, id) ==
    LET hits == {i \in 1..Len(container) : IdOf(container[i]) = id}
    IN IF hits = {} THEN 0 ELSE CHOOSE i \in hits : \A j \in hits : i <= j

\* Array.prototype.splice(ind, 1) and splice(ind, 1, x).
SpliceOut(s, ind) == SubSeq(s, 1, ind - 1) \o SubSeq(s, ind + 1, Len(s))
SpliceIn(s, ind, x) == [s EXCEPT ![ind] = x]

\* ------------------------------------------------------------ state
VARIABLES
    now,        \* Date.now()
    types,      \* types[c][t]: the container of type t in client c's `_types`
    deleted,    \* deleted[c][t]: the container of type t in `_deleted`
    maxID,      \* maxID[c]: `_maxID`
    issued,     \* issued[c]: the values `_newID` returned, oldest first
    call,       \* the last direct call of a record store method: its argument and outcome
    ncalls,     \* the number of direct calls made
    lsSync,     \* lsSync[c]: localStorage item `${key}-sync`, None when absent
    lsData,     \* lsData[c]: localStorage item `${key}-data`, None when absent
    srv,        \* srv[t]: the records of type t in the server's data file
    srvDeleted, \* srvDeleted[t]: the data file's deleted list for type t
    cl,         \* cl[p]: the client (DataStorage instance) whose method p runs
    pc,         \* pc[p]: where the asynchronous call p stands
    loc,        \* loc[p]: the local variables of call p
    out,        \* out[p]: how the last call of p settled
    inited,     \* inited[c]: init() was called on the instance
    nops        \* the number of public calls made

storeVars == <<types, deleted, maxID>>
diskVars == <<lsSync, lsData>>
srvVars == <<srv, srvDeleted>>
callVars == <<call, ncalls>>
vars == <<now, types, deleted, maxID, issued, call, ncalls, lsSync, lsData,
          srv, srvDeleted, cl, pc, loc, out, inited, nops>>

\* An argument `inst` of a store method.
Inst(t, alias, rec) == [type |-> t, alias |-> alias, rec |-> rec]

\* The store of one client, as the methods below read and return it.
Store(c) == [types |-> types[c], deleted |-> deleted[c], maxID |-> maxID[c]]

Outcome(s, ret, err) == [store |-> s, ret |-> ret, err |-> err]

\* ------------------------------------------------------------ record store
\* get _newID: [id, _maxID after].
NewID(mx, t) ==
    IF t <= mx THEN [id |-> mx + 1, maxID |-> mx + 1]
               ELSE [id |-> t, maxID |-> mx]

\* The position of `inst` in its container after a mutation: indexOf(inst).
IndexAfter(container, inst) == FindIndexById(container, inst.rec._created)

\* _add without its last statement: `_maxID` is left as it was.
MutKeepMaxID(mx, id) == mx

\* _add, lines 583-585: update `_maxID` if necessary.
UpdateMaxID(mx, id) == IF id > mx THEN id ELSE mx

\* _add(inst)
Add(s, inst) ==
    IF inst.type \notin TypeNames THEN Outcome(s, 0, "AddInvalidType")
    ELSE LET container == s.types[inst.type]
             exInd == inst.alias
             idConflict == FindIndexById(container, inst.rec._created) > 0
         IN IF exInd = 0 /\ idConflict THEN Outcome(s, 0, "AddIDConflict")
            ELSE LET pushed == IF exInd > 0 THEN container
                               ELSE Append(container, inst.rec)
                     sorted == Sort(pushed)
                     mx == UpdateMaxID(s.maxID, IdOf(inst.rec))
                 IN Outcome([s EXCEPT !.types[inst.type] = sorted, !.maxID = mx],
                            IndexAfter(sorted, inst), "")

\* _replace without the splice of line 612: the old instance stays.
MutReplaceKeepsOld(s, inst) ==
    IF inst.type \notin TypeNames THEN Outcome(s, 0, "ReplaceInvalidType")
    ELSE LET ind == FindIndexById(s.types[inst.type], inst.rec._created)
         IN IF ind = 0 THEN Outcome(s, 0, "ReplaceNoMatch")
            ELSE Outcome(s, ind, "")

\* _replace(inst)
Replace(s, inst) ==
    IF inst.type \notin TypeNames THEN Outcome(s, 0, "ReplaceInvalidType")
    ELSE LET container == s.types[inst.type]
             ind == FindIndexById(container, inst.rec._created)
         IN IF ind = 0 THEN Outcome(s, 0, "ReplaceNoMatch")
            ELSE LET sorted == Sort(SpliceIn(container, ind, inst.rec))
                 IN Outcome([s EXCEPT !.types[inst.type] = sorted],
                            IndexAfter(sorted, inst), "")

\* _remove that leaves a record it makes a tombstone for in its container.
MutRemoveKeepsDeleted(s, inst, del) ==
    IF inst.type \notin TypeNames THEN Outcome(s, 0, "TypeError")
    ELSE IF inst.alias = 0 THEN Outcome(s, 0, "Replace")
    ELSE IF del
       THEN Outcome([s EXCEPT !.deleted[inst.type] =
                        Append(@, Tombstone(inst.rec._created, DeletedOf(inst.rec)))],
                    inst.alias, "")
       ELSE Outcome([s EXCEPT !.types[inst.type] = SpliceOut(@, inst.alias)],
                    inst.alias, "")

\* _remove(inst, del)
Remove(s, inst, del) ==
    IF inst.type \notin TypeNames THEN Outcome(s, 0, "TypeError")
    ELSE LET container == s.types[inst.type]
             ind == inst.alias
         IN IF ind = 0 THEN Outcome(s, 0, "Replace")
            ELSE LET s1 == [s EXCEPT !.types[inst.type] = SpliceOut(container, ind)]
                     dcont == s.deleted[inst.type]
                     existing == FindIndexById(dcont, IdOf(inst.rec)) > 0
                 IN IF ~del THEN Outcome(s1, ind, "")
                    ELSE IF existing THEN Outcome(s1, 0, "Add")
                    ELSE Outcome(
                           [s1 EXCEPT !.deleted[inst.type] =
                               Sort(Append(dcont, Tombstone(inst.rec._created,
                                                            DeletedOf(inst.rec))))],
                           ind, "")

\* ------------------------------------------------------------ JSON, hash
\* DSDataRecord.toJSON: `_modified` is written only when it is truthy.
ToJSON(rec) ==
    IF IsTombstone(rec)
       THEN (IF rec._deleted = Undefined THEN [_created |-> rec._created] ELSE rec)
    ELSE IF rec._modified = 0 THEN [_created |-> rec._created, val |-> rec.val]
    ELSE rec

HasModified(jobj) == "_modified" \in DOMAIN jobj
\* jobj._modified || 0
ModifiedOf(jobj) == IF HasModified(jobj) THEN jobj._modified ELSE 0

\* DSDataRecord.fromJSON
FromJSON(jobj) == Record(jobj._created, ModifiedOf(jobj), jobj.val)

\* JSON.stringify of an array of records.
JSONArray(container) == [j \in 1..Len(container) |-> ToJSON(container[j])]

\* get _dataString: one key per configured type, in the order of `_types`.
DataString(tys) ==
    [i \in 1..Len(TypeList) |->
        [name |-> TypeList[i], recs |-> JSONArray(tys[TypeList[i]])]]

\* DataStorage.hash: the SHA-256 digest, a one-to-one image of the string.
Hash(str) == [sha256 |-> str]
\* A value that is not there: an omitted argument, an item localStorage lacks.
None == <<>>

\* DataStorage.encrypt / DataStorage.decrypt with the default password. What
\* encrypt returns is a string, the serialized container {salt, iv, text}:
\* like a data string it is a sequence, and never equal to one.
Encrypt(plaintext) == <<[text |-> plaintext]>>
Decrypt(cipher) == cipher[1].text
\* An item that decrypt rejects (window.crypto.subtle.decrypt fails on it), and
\* a text that JSON.parse rejects.
Undecryptable == <<[garbled |-> "cipher"]>>
Unparsable == <<[garbled |-> "text"]>>
Decryptable(cipher) == "text" \in DOMAIN cipher[1]
Parses(jstr) == "garbled" \notin DOMAIN jstr[1]

\* ------------------------------------------------------------ delta
\* The id-keyed object literal built from the elements `kept` of a container;
\* a later element with the same key overwrites an earlier one.
Last(container, id) ==
    LET hits == {i \in 1..Len(container) : container[i]._created = id}
    IN container[CHOOSE i \in hits : \A j \in hits : j <= i]
IdIndex(kept) ==
    [id \in {kept[i]._created : i \in 1..Len(kept)} |-> ToJSON(Last(kept, id))]

\* `delete instances[key].rank` for the empty ranks.
Prune(full) == [r \in {q \in DOMAIN full : DOMAIN full[q] # {}} |-> full[r]]

GreaterThan(a, b) == a # Undefined /\ b # Undefined /\ a > b

\* The loop of lines 428-433 with `if` in place of `else if`.
MutCompileWithoutElse(active, dels, lastSync) ==
    LET IsNew(inst) == inst._created > lastSync
        IsMod(inst) == inst._modified # 0 /\ inst._modified > lastSync
        IsDel(inst) == GreaterThan(inst._deleted, lastSync)
    IN [new |-> IdIndex(SelectSeq(active, IsNew)),
        modified |-> IdIndex(SelectSeq(active, IsMod)),
        deleted |-> IdIndex(SelectSeq(dels, IsDel))]

\* _reconcile, lines 412-456: local activity since `lastSync`.
CompileRanks(active, dels, lastSync) ==
    LET IsNew(inst) == inst._created > lastSync
        IsMod(inst) == /\ ~IsNew(inst)
                       /\ inst._modified # 0 /\ inst._modified > lastSync
        IsDel(inst) == GreaterThan(inst._deleted, lastSync)
    IN [new |-> IdIndex(SelectSeq(active, IsNew)),
        modified |-> IdIndex(SelectSeq(active, IsMod)),
        deleted |-> IdIndex(SelectSeq(dels, IsDel))]

Compile(s, lastSync) ==
    LET ranks(t) == Prune(CompileRanks(s.types[t], s.deleted[t], lastSync))
    IN [t \in {u \in TypeNames : DOMAIN ranks(u) # {}} |-> ranks(t)]

\* ------------------------------------------------------------ server
MutSrvStdSortAscending(a, b) ==
    (IF a._created > b._created THEN 1 ELSE 0)
      - (IF a._created < b._created THEN 1 ELSE 0)
\* utils.php stdSort: 1, 0 or -1 as $b is greater than, equal to or less than $a.
SrvStdSort(a, b) ==
    (IF a._created < b._created THEN 1 ELSE 0)
      - (IF a._created > b._created THEN 1 ELSE 0)

\* usort($container, "stdSort"); equal elements keep their order, as in the
\* insertion sort PHP uses for short arrays.
RECURSIVE SrvInsertSorted(_, _)
SrvInsertSorted(s, x) ==
    IF s = <<>> THEN <<x>>
    ELSE LET l == s[Len(s)] IN
         IF SrvStdSort(l, x) > 0
            THEN Append(SrvInsertSorted(SubSeq(s, 1, Len(s) - 1), x), l)
            ELSE Append(s, x)

RECURSIVE SrvSort(_)
SrvSort(s) == IF s = <<>> THEN <<>>
              ELSE SrvInsertSorted(SrvSort(SubSeq(s, 1, Len(s) - 1)), s[Len(s)])

MutMatchesNothing(container, id) == {}
Matches(container, id) == {i \in 1..Len(container) : container[i]._created = id}

MutAddDropsInst(container, inst) == container
\* utils.php add(&$container, $inst)
SrvAdd(container, inst) == SrvSort(Append(container, inst))

MutReplaceKeepsContainer(container, newInst) ==
    [container |-> container, echo |-> ""]
\* utils.php replace(&$container, $newInst): [container, echo].
SrvReplace(container, newInst) ==
    LET matches == Matches(container, newInst._created) IN
    IF matches = {} THEN [container |-> container, echo |-> "CANNOT_REPLACE_NO_MATCH"]
    ELSE IF Cardinality(matches) > 1
        THEN [container |-> container, echo |-> "CANNOT_REPLACE_MULTI_MACH"]
    ELSE LET ind == CHOOSE i \in matches : TRUE
         IN [container |-> SrvSort(SpliceIn(container, ind, newInst)), echo |-> ""]

\* The data file without its `deleted` list, encoded: hash.php.
ServerString(S) ==
    [i \in 1..Len(TypeList) |-> [name |-> TypeList[i], recs |-> S[TypeList[i]]]]
\* hash.php
SrvHash(S) == Hash(ServerString(S))

\* An id-keyed object literal of the elements of a server container.
JIndex(kept) ==
    [id \in {kept[i]._created : i \in 1..Len(kept)} |-> Last(kept, id)]

NoIndex == [id \in {} |-> id]
RankOf(ranks, r) == IF r \in DOMAIN ranks THEN ranks[r] ELSE NoIndex
RanksOf(index, t) == IF t \in DOMAIN index THEN index[t] ELSE NoIndex

\* Section 4.8 step 1: the authoritative records changed after LastSync.
Screen(S, SD, L) ==
    LET IsNew(r) == r._created > L
        IsMod(r) == ModifiedOf(r) > L
        IsDel(r) == "_deleted" \in DOMAIN r /\ r._deleted > L
    IN [new |-> JIndex(SelectSeq(S, IsNew)),
        modified |-> JIndex(SelectSeq(S, IsMod)),
        deleted |-> JIndex(SelectSeq(SD, IsDel))]

\* The versions of `id` in the ranks of one side: new, modified, deleted.
Versions(ranks, id) ==
    (IF id \in DOMAIN ranks.new THEN <<ranks.new[id]>> ELSE <<>>)
    \o (IF id \in DOMAIN ranks.modified THEN <<ranks.modified[id]>> ELSE <<>>)
    \o (IF id \in DOMAIN ranks.deleted THEN <<ranks.deleted[id]>> ELSE <<>>)
\* The authoritative records with this id, in their order.
Held(S, id) == SelectSeq(S, LAMBDA r : r._created = id)
IdsOf(ranks) == DOMAIN ranks.new \cup DOMAIN ranks.modified \cup DOMAIN ranks.deleted
\* `index` without the ids in `ids`.
Without(index, ids) == [id \in DOMAIN index \ ids |-> index[id]]
\* The client's ranks of one type, an empty index for a rank it did not send.
ClientRanks(cr) ==
    [new |-> RankOf(cr, "new"), modified |-> RankOf(cr, "modified"),
     deleted |-> RankOf(cr, "deleted")]

\* Section 4.8 step 2: an id both sides report collides.
Collided(scr, c) == IdsOf(scr) \cap IdsOf(c)

\* add() / replace() of utils.php for each id of `ids`, ascending.
RECURSIVE AddAll(_, _, _)
AddAll(cont, index, ids) ==
    IF ids = {} THEN cont
    ELSE LET id == CHOOSE x \in ids : \A y \in ids : x <= y
         IN AddAll(SrvAdd(cont, index[id]), index, ids \ {id})
RECURSIVE ReplaceAll(_, _, _)
ReplaceAll(cont, index, ids) ==
    IF ids = {} THEN cont
    ELSE LET id == CHOOSE x \in ids : \A y \in ids : x <= y
         IN ReplaceAll(SrvReplace(cont, index[id]).container, index, ids \ {id})

\* Section 4.8 step 3. m: [S, SD, refused], the containers of the type so far
\* and the client ids that became conflicts.
MergeNew(m, cNew, collided) ==
    LET ok == {id \in DOMAIN cNew \ collided : Matches(m.S, id) = {}}
    IN [m EXCEPT !.S = AddAll(m.S, cNew, ok),
                 !.refused = @ \cup ((DOMAIN cNew \ collided) \ ok)]
ModOk(S, L, jobj) ==
    /\ Cardinality(Matches(S, jobj._created)) = 1
    /\ LET sv == S[CHOOSE i \in Matches(S, jobj._created) : TRUE]
       IN /\ (~HasModified(sv) \/ sv._modified <= L)
          /\ ModifiedOf(jobj) > ModifiedOf(sv)
MergeModified(m, L, cMod, collided) ==
    LET ok == {id \in DOMAIN cMod \ collided : ModOk(m.S, L, cMod[id])}
    IN [m EXCEPT !.S = ReplaceAll(m.S, cMod, ok),
                 !.refused = @ \cup ((DOMAIN cMod \ collided) \ ok)]
MergeDeleted(m, cDel, collided) ==
    LET ok == {id \in DOMAIN cDel \ collided : Cardinality(Matches(m.S, id)) = 1}
    IN [m EXCEPT !.S = SelectSeq(m.S, LAMBDA r : r._created \notin ok),
                 !.SD = AddAll(m.SD, cDel, ok),
                 !.refused = @ \cup ((DOMAIN cDel \ collided) \ ok)]
Merge(S, SD, L, c, collided) ==
    MergeDeleted(
        MergeModified(
            MergeNew([S |-> S, SD |-> SD, refused |-> {}], c.new, collided),
            L, c.modified, collided),
        c.deleted, collided)

\* The type's containers after the merge and its response ranks: what was
\* screened and did not collide, and the conflicts with the versions of both
\* sides.
Response(S, scr, c, collided, m) ==
    [S |-> m.S, SD |-> m.SD,
     ranks |-> Prune(
        [new |-> Without(scr.new, collided),
         modified |-> Without(scr.modified, collided),
         deleted |-> Without(scr.deleted, collided),
         conflict |-> [id \in collided \cup m.refused |->
                          (IF id \in collided THEN Versions(scr, id) ELSE Held(S, id))
                            \o Versions(c, id)]])]

Merged(S, SD, L, c, scr, collided) ==
    Response(S, scr, c, collided, Merge(S, SD, L, c, collided))
Screened(S, SD, L, c, scr) == Merged(S, SD, L, c, scr, Collided(scr, c))

\* Section 4.8 steps 1-3 for one type. cr: the client's ranks of this type.
ReconcileType(S, SD, L, cr) ==
    Screened(S, SD, L, ClientRanks(cr), Screen(S, SD, L))

\* Section 4.8 step 4: the merged data file, its hash and the pruned response.
Respond(byType) ==
    [S |-> [t \in TypeNames |-> byType[t].S],
     SD |-> [t \in TypeNames |-> byType[t].SD],
     response |->
        [hash |-> SrvHash([t \in TypeNames |-> byType[t].S]),
         data |-> [t \in {u \in TypeNames : DOMAIN byType[u].ranks # {}} |->
                     byType[t].ranks]]]

\* Section 4.8: the `reconcile` query. data: {sync, instances}.
Reconcile(S, SD, data) ==
    Respond([t \in TypeNames |->
               ReconcileType(S[t], SD[t], data.sync, RanksOf(data.instances, t))])

\* ------------------------------------------------------------ applying a response
\* The keys of an object literal in the order `for..in` visits them:
\* integer keys ascending.
RECURSIVE KeysAsc(_)
KeysAsc(ids) ==
    IF ids = {} THEN <<>>
    ELSE LET id == CHOOSE x \in ids : \A y \in ids : x <= y
         IN <<id>> \o KeysAsc(ids \ {id})

\* The loop bodies of _reconcile, lines 476-525, in the order they run.
RankSteps(t, ranks, r) ==
    LET keys == KeysAsc(DOMAIN RankOf(ranks, r))
    IN [i \in 1..Len(keys) |-> [type |-> t, rank |-> r, id |-> keys[i]]]
TypeSteps(t, ranks) ==
    RankSteps(t, ranks, "new") \o RankSteps(t, ranks, "modified")
      \o RankSteps(t, ranks, "deleted") \o RankSteps(t, ranks, "conflict")
RECURSIVE ResponseSteps(_, _)
ResponseSteps(data, i) ==
    IF i > Len(TypeList) THEN <<>>
    ELSE (IF TypeList[i] \in DOMAIN data
             THEN TypeSteps(TypeList[i], data[TypeList[i]]) ELSE <<>>)
         \o ResponseSteps(data, i + 1)

\* A loop over `conflict` that collects the versions and does not throw.
MutApplyStepCollects(s, data, step) ==
    LET localContainer == data[step.type] IN
    IF step.rank = "new"
       THEN LET o == Add(s, [type |-> step.type, alias |-> 0,
                             rec |-> FromJSON(localContainer.new[step.id])])
            IN [store |-> o.store, err |-> o.err]
    ELSE IF step.rank = "modified"
       THEN IF step.id \notin DOMAIN RankOf(localContainer, "new")
               THEN [store |-> s, err |-> "TypeError"]
               ELSE LET o == Replace(s, [type |-> step.type, alias |-> 0,
                                         rec |-> FromJSON(localContainer.new[step.id])])
                    IN [store |-> o.store, err |-> o.err]
    ELSE IF step.rank = "conflict" THEN [store |-> s, err |-> ""]
    ELSE [store |-> s, err |-> "Reconcile"]

\* One loop body: the store after it and the error it throws, if any.
ApplyStep(s, data, step) ==
    LET localContainer == data[step.type] IN
    IF step.rank = "new"
       THEN LET o == Add(s, [type |-> step.type, alias |-> 0,
                             rec |-> FromJSON(localContainer.new[step.id])])
            IN [store |-> o.store, err |-> o.err]
    ELSE IF step.rank = "modified"
       THEN \* reads localContainer.new[id]
            IF step.id \notin DOMAIN RankOf(localContainer, "new")
               THEN [store |-> s, err |-> "TypeError"]
               ELSE LET o == Replace(s, [type |-> step.type, alias |-> 0,
                                         rec |-> FromJSON(localContainer.new[step.id])])
                    IN [store |-> o.store, err |-> o.err]
    ELSE [store |-> s, err |-> "Reconcile"]

RECURSIVE ApplySteps(_, _, _)
ApplySteps(s, data, steps) ==
    IF steps = <<>> THEN [store |-> s, err |-> ""]
    ELSE LET o == ApplyStep(s, data, Head(steps))
         IN IF o.err # "" THEN o ELSE ApplySteps(o.store, data, Tail(steps))

\* _reconcile, lines 473-525: update the records in memory from the response.
ApplyResponse(s, data) == ApplySteps(s, data, ResponseSteps(data, 1))

\* init, lines 156-171: load the parsed local data.
RECURSIVE LoadAll(_, _, _)
LoadAll(s, t, jobjs) ==
    IF jobjs = <<>> THEN [store |-> s, err |-> ""]
    ELSE LET o == Add(s, [type |-> t, alias |-> 0, rec |-> FromJSON(Head(jobjs))])
         IN IF o.err # "" THEN [store |-> o.store, err |-> o.err]
            ELSE LoadAll(o.store, t, Tail(jobjs))
RECURSIVE Load(_, _, _)
Load(s, jdat, i) ==
    IF i > Len(jdat) THEN [store |-> s, err |-> ""]
    ELSE LET o == LoadAll(s, jdat[i].name, jdat[i].recs)
         IN IF o.err # "" THEN o ELSE Load(o.store, jdat, i + 1)

\* ------------------------------------------------------------ initial state
EmptyStore == [t \in TypeNames |-> <<>>]
NoInst == [type |-> "", alias |-> 0, rec |-> Record(0, 0, 0)]
\* The local variables of a call that has not started.
\*   op, phase: the public method and which of its _sync calls is running
\*   inst: the argument of save / edit
\*   local, remote, sync, reconciled: the DSSyncResult `result` of _sync
\*   snap: the string handed to DataStorage.write
\*   wdone, rdone: the local write / the remote POST of save and edit settled
\*   req, resp: the body of the reconcile request and the parsed response
\*   ls0: K-sync when the running _sync was called
\*   quiet: no other call has been started or in flight since this one started
\*   seq: the position of a save() among the public calls, in call order
NoLoc == [op |-> "", phase |-> "", inst |-> NoInst, local |-> None, remote |-> None,
          sync |-> 0, reconciled |-> FALSE, snap |-> None, wdone |-> FALSE,
          rdone |-> FALSE, req |-> None, resp |-> None, ls0 |-> 0, quiet |-> FALSE,
          seq |-> 0]
\* How the last public call settled, NoOut while it is pending: `resolved` with a frozen DSSyncResult (or, from
\* init, with the error it caught), or `rejected` with an error.
\*   cause: the error a wrapping error carries
\*   conflict: the reconcile response of the call held a `conflict` rank
\*   converged: at the end the data string equalled the server's
NoOut == [op |-> "", phase |-> "", settled |-> "", err |-> "", cause |-> "",
          local |-> None,
          remote |-> None, sync |-> 0, reconciled |-> FALSE, frozen |-> FALSE,
          quiet |-> FALSE, conflict |-> FALSE, converged |-> FALSE]

\* Everything but the server's data file.
InitClients(clients) ==
    /\ now = 1
    /\ types = [c \in Clients |-> EmptyStore]
    /\ deleted = [c \in Clients |-> EmptyStore]
    /\ maxID = [c \in Clients |-> 0]
    /\ issued = [c \in Clients |-> <<>>]
    /\ call = [op |-> "", arg |-> None, ret |-> 0, err |-> ""]
    /\ ncalls = 0
    /\ lsSync = [c \in Clients |-> None]
    /\ lsData = [c \in Clients |-> None]
    /\ cl = clients
    /\ pc = [p \in Procs |-> "idle"]
    /\ loc = [p \in Procs |-> NoLoc]
    /\ out = [p \in Procs |-> NoOut]
    /\ inited = [c \in Clients |-> FALSE]
    /\ nops = 0

InitWith(clients) ==
    /\ InitClients(clients)
    /\ srv = EmptyStore
    /\ srvDeleted = EmptyStore

\* Date.now() advances.
Tick ==
    /\ now < MaxClock
    /\ now' = now + 1
    /\ UNCHANGED <<storeVars, issued, callVars, diskVars, srvVars, cl, pc, loc, out,
                   inited, nops>>

SetStore(c, s) ==
    /\ types' = [types EXCEPT ![c] = s.types]
    /\ deleted' = [deleted EXCEPT ![c] = s.deleted]
    /\ maxID' = [maxID EXCEPT ![c] = s.maxID]

\* ------------------------------------------------------------ direct calls
\* The objects a caller can pass: one of its own (in no container), or the
\* object stored at index i of a container.
FreshInsts == {Inst(t, 0, Record(c, 0, v)) :
                 t \in TypeNames \cup {OtherType}, c \in Ids, v \in Vals}
StoredInsts(c) ==
    UNION {{Inst(t, i, types[c][t][i]) : i \in 1..Len(types[c][t])} :
             t \in TypeNames}

protoVars == <<diskVars, srvVars, cl, pc, loc, out, inited, nops>>

CallNewID(c) ==
    /\ ncalls < MaxCalls
    /\ LET r == NewID(maxID[c], now) IN
        /\ maxID' = [maxID EXCEPT ![c] = r.maxID]
        /\ issued' = [issued EXCEPT ![c] = Append(@, r.id)]
        /\ call' = [op |-> "newID", arg |-> None, ret |-> r.id, err |-> ""]
    /\ ncalls' = ncalls + 1
    /\ UNCHANGED <<now, types, deleted, protoVars>>

CallAdd(c) ==
    /\ ncalls < MaxCalls
    /\ \E inst \in FreshInsts \cup StoredInsts(c) :
         LET o == Add(Store(c), inst) IN
         /\ SetStore(c, o.store)
         /\ call' = [op |-> "add", arg |-> inst, ret |-> o.ret, err |-> o.err]
    /\ ncalls' = ncalls + 1
    /\ UNCHANGED <<now, issued, protoVars>>

CallReplace(c) ==
    /\ ncalls < MaxCalls
    /\ \E t \in TypeNames \cup {OtherType}, id \in Ids, v \in Vals :
         LET o == Replace(Store(c), Inst(t, 0, Record(id, now, v))) IN
         /\ SetStore(c, o.store)
         /\ call' = [op |-> "replace", arg |-> Inst(t, 0, Record(id, now, v)),
                     ret |-> o.ret, err |-> o.err]
    /\ ncalls' = ncalls + 1
    /\ UNCHANGED <<now, issued, protoVars>>

CallRemove(c) ==
    /\ ncalls < MaxCalls
    /\ \E inst \in FreshInsts \cup StoredInsts(c), del \in BOOLEAN :
         LET o == Remove(Store(c), inst, del) IN
         /\ SetStore(c, o.store)
         /\ call' = [op |-> "remove", arg |-> [inst |-> inst, del |-> del],
                     ret |-> o.ret, err |-> o.err]
    /\ ncalls' = ncalls + 1
    /\ UNCHANGED <<now, issued, protoVars>>

\* The `data` of a reconcile response, applied as _reconcile applies it:
\* one type with one id under one rank, or under `new` and `modified` both.
ResponseRanks ==
    UNION {{[new |-> (id :> ToJSON(Record(id, 0, v)))],
            [new |-> (id :> ToJSON(Record(id, now, v))),
             modified |-> (id :> ToJSON(Record(id, now, v)))],
            [modified |-> (id :> ToJSON(Record(id, now, v)))],
            [deleted |-> (id :> ToJSON(Tombstone(id, now)))]} :
             id \in Ids, v \in EditedVals}
Responses == {(TypeList[1] :> ranks) : ranks \in ResponseRanks}

CallApply(c) ==
    /\ ncalls < MaxCalls
    /\ \E data \in Responses :
         LET o == ApplyResponse(Store(c), data) IN
         /\ SetStore(c, o.store)
         /\ call' = [op |-> "apply", arg |-> data, ret |-> 0, err |-> o.err]
    /\ ncalls' = ncalls + 1
    /\ UNCHANGED <<now, issued, protoVars>>

\* _reconcile, lines 412-465, with K-sync holding `since`: the `data` of the
\* reconcile request.
CallCompile(c) ==
    /\ \E since \in 0..MaxClock :
         call' = [op |-> "compile", arg |-> since,
                  ret |-> [sync |-> since, instances |-> Compile(Store(c), since)],
                  err |-> ""]
    /\ UNCHANGED <<now, storeVars, issued, ncalls, protoVars>>

InitStore == InitWith([p \in Procs |-> 1])

NextStore ==
    \/ Tick
    \/ CallNewID(1)
    \/ CallAdd(1)
    \/ CallReplace(1)
    \/ CallRemove(1)
    \/ CallApply(1)
    \/ CallCompile(1)

\* The record store of one instance under direct calls of its methods.
SpecStore == InitStore /\ [][NextStore]_vars

\* ------------------------------------------------------------ sync engine
\* get _lastSync: 0 when the item is not in local storage.
LastSync(c) == IF lsSync[c] = None THEN 0 ELSE lsSync[c][1]
\* set _lastSync
SetLastSync(c, sync) == lsSync' = [lsSync EXCEPT ![c] = <<sync>>]

\* A write that also stamps K-sync with the time of the write.
MutWriteStampsSync(c, data) ==
    /\ lsData' = [lsData EXCEPT ![c] = <<Encrypt(data)>>]
    /\ lsSync' = [lsSync EXCEPT ![c] = <<now>>]

\* DataStorage.write(`${key}-data`, data): the one item it sets.
Write(c, data) ==
    /\ lsData' = [lsData EXCEPT ![c] = <<Encrypt(data)>>]
    /\ UNCHANGED lsSync

\* A write that returns the digest of the string it stored.
MutWriteHashesStored(data) == Hash(Encrypt(data))

\* DataStorage.write, line 780: the value the promise resolves to.
WriteDigest(data) == Hash(data)

\* A comparison that succeeds only on a result that was reconciled.
MutSucceedsOnlyReconciled(result) ==
    result.reconciled /\ result.local = result.remote
\* A comparison that takes a reconciled result for a success.
MutSucceedsOnceReconciled(result) ==
    result.reconciled \/ result.local = result.remote

\* DSSyncResult `get succeeds`: both digests are strings and are equal.
\* result: a record with the fields local, remote of a DSSyncResult.
Succeeds(result) ==
    result.local # None /\ result.remote # None /\ result.local = result.remote
\* DSSyncResult `get hash`; None stands for the empty string.
ResultHash(result) == IF Succeeds(result) THEN result.remote ELSE None

HasConflict(resp) ==
    resp # None /\ \E t \in DOMAIN resp.data : "conflict" \in DOMAIN resp.data[t]

\* No other call is in flight.
Quiet(p) == \A q \in Procs \ {p} : pc[q] = "idle"
\* The locals of all calls when call p starts with locals l.
Started(p, l) ==
    [q \in Procs |-> IF q = p THEN l ELSE [loc[q] EXCEPT !.quiet = FALSE]]

\* _sync(), lines 349-362, called without arguments: the `hash` query is
\* sent and the digest of the data in memory is started.
BeginSync(c, l, tys) ==
    [l EXCEPT !.local = Hash(DataString(tys)), !.remote = None,
              !.ls0 = LastSync(c)]

\* The promise of call p settles with o.
Settle(p, o) ==
    /\ pc' = [pc EXCEPT ![p] = "idle"]
    /\ out' = [out EXCEPT ![p] = o]
    /\ loc' = [loc EXCEPT ![p] = NoLoc]

Failure(l, how, err, cause) ==
    [NoOut EXCEPT !.op = l.op, !.phase = l.phase, !.settled = how, !.err = err,
                  !.cause = cause, !.local = l.local, !.remote = l.remote,
                  !.reconciled = l.reconciled, !.quiet = l.quiet,
                  !.conflict = HasConflict(l.resp)]

\* A `throw` in save / edit / init outside their _sync calls.
Throw(p, err, cause) ==
    /\ Settle(p, Failure(loc[p], "rejected", err, cause))
    /\ UNCHANGED diskVars

\* A _sync that persists the time of its failure before it throws.
MutSyncThrowStamps(p, err) ==
    /\ Settle(p, Failure(loc[p], "rejected", err, err))
    /\ lsSync' = [lsSync EXCEPT ![cl[p]] = <<now>>]
    /\ UNCHANGED lsData

\* A save / edit that swallows the error of its preliminary sync and goes on.
MutPrelimErrorIgnored(p, err) ==
    IF loc[p].phase = "prelim"
       THEN /\ pc' = [pc EXCEPT ![p] = "mutate"]
            /\ UNCHANGED <<loc, out, diskVars>>
       ELSE /\ Settle(p, Failure(loc[p],
                     IF loc[p].op = "init" THEN "resolved" ELSE "rejected", err, err))
            /\ UNCHANGED diskVars

\* A `throw` in _sync or _reconcile, as its caller hands it on: init catches
\* and returns the error, save and edit wrap the error of their preliminary
\* sync, and the promise of the concluding sync is returned as it is.
SyncThrow(p, err) ==
    LET l == loc[p] IN
    /\ Settle(p, Failure(l,
                 IF l.op = "init" THEN "resolved" ELSE "rejected",
                 IF l.phase # "prelim" THEN err
                 ELSE IF l.op = "save" THEN "SavePrelimSync" ELSE "EditPrelimSync",
                 err))
    /\ UNCHANGED diskVars

\* The frozen DSSyncResult a successful _sync returns.
Result(c, l) ==
    [NoOut EXCEPT !.op = l.op, !.phase = l.phase, !.settled = "resolved",
                  !.local = l.local, !.remote = l.remote, !.sync = l.sync,
                  !.reconciled = l.reconciled, !.frozen = TRUE,
                  !.quiet = l.quiet, !.conflict = HasConflict(l.resp),
                  !.converged = (DataString(types[c]) = ServerString(srv))]

\* _sync returns: save and edit go on after their preliminary sync, every
\* other caller returns the result.
Return(p, l) ==
    IF l.phase = "prelim"
       THEN /\ pc' = [pc EXCEPT ![p] = "mutate"]
            /\ loc' = [loc EXCEPT ![p] = l]
            /\ UNCHANGED out
       ELSE Settle(p, Result(cl[p], l))

\* ------------------------------------------------------------ public calls
\* The caller uses an instance once its local data is in memory: after
\* init(), or when local storage holds no data to load.
Ready(c) == inited[c] \/ lsData[c] = None

CallSync(p) ==
    /\ pc[p] = "idle" /\ nops < MaxOps
    /\ Ready(cl[p])
    /\ loc' = Started(p, BeginSync(cl[p],
                 [NoLoc EXCEPT !.op = "sync", !.phase = "only", !.quiet = Quiet(p)],
                 types[cl[p]]))
    /\ pc' = [pc EXCEPT ![p] = "sync_wait"]
    /\ nops' = nops + 1
    /\ out' = [out EXCEPT ![p] = NoOut]
    /\ UNCHANGED <<now, storeVars, issued, callVars, diskVars, srvVars, cl, inited>>

\* save(inst) with a new object.
CallSave(p) ==
    /\ pc[p] = "idle" /\ nops < MaxOps
    /\ Ready(cl[p])
    /\ \E v \in SavedVals :
         loc' = Started(p, BeginSync(cl[p],
                   [NoLoc EXCEPT !.op = "save", !.phase = "prelim",
                                 !.seq = nops + 1,
                                 !.inst = Inst(TypeList[1], 0, Record(0, 0, v))],
                   types[cl[p]]))
    /\ pc' = [pc EXCEPT ![p] = "sync_wait"]
    /\ nops' = nops + 1
    /\ out' = [out EXCEPT ![p] = NoOut]
    /\ UNCHANGED <<now, storeVars, issued, callVars, diskVars, srvVars, cl, inited>>

\* edit(inst) with a new version of the record `id`.
CallEdit(p) ==
    /\ pc[p] = "idle" /\ nops < MaxOps
    /\ Ready(cl[p])
    /\ \E id \in Ids, v \in EditedVals :
         loc' = Started(p, BeginSync(cl[p],
                   [NoLoc EXCEPT !.op = "edit", !.phase = "prelim",
                                 !.inst = Inst(TypeList[1], 0, Record(id, 0, v))],
                   types[cl[p]]))
    /\ pc' = [pc EXCEPT ![p] = "sync_wait"]
    /\ nops' = nops + 1
    /\ out' = [out EXCEPT ![p] = NoOut]
    /\ UNCHANGED <<now, storeVars, issued, callVars, diskVars, srvVars, cl, inited>>

\* delete(inst), line 314, with a record of the store: the body is empty,
\* the call returns undefined at once.
CallDelete(p) ==
    /\ pc[p] = "idle" /\ nops < MaxOps
    /\ Ready(cl[p])
    /\ StoredInsts(cl[p]) # {}
    /\ out' = [out EXCEPT ![p] = [NoOut EXCEPT !.op = "delete",
                                               !.settled = "returned"]]
    /\ loc' = Started(p, NoLoc)
    /\ nops' = nops + 1
    /\ UNCHANGED <<now, storeVars, issued, callVars, diskVars, srvVars, cl, pc,
                   inited>>

\* init(), line 153: the read of K-data is awaited.
CallInit(p) ==
    /\ pc[p] = "idle" /\ nops < MaxOps
    /\ ~inited[cl[p]]
    /\ loc' = Started(p, [NoLoc EXCEPT !.op = "init", !.phase = "init"])
    /\ pc' = [pc EXCEPT ![p] = "init_load"]
    /\ inited' = [inited EXCEPT ![cl[p]] = TRUE]
    /\ nops' = nops + 1
    /\ out' = [out EXCEPT ![p] = NoOut]
    /\ UNCHANGED <<now, storeVars, issued, callVars, diskVars, srvVars, cl>>

\* An init that goes on to its _sync when line 153 throws.
MutInitFailSyncs(p, err) ==
    /\ pc' = [pc EXCEPT ![p] = "sync_wait"]
    /\ loc' = [loc EXCEPT ![p] = BeginSync(cl[p], @, types[cl[p]])]
    /\ UNCHANGED <<storeVars, diskVars, out>>

\* init(), line 153: read or parse throws, and init has no try around them.
InitFail(p, err) ==
    /\ Throw(p, err, "")
    /\ UNCHANGED storeVars

\* init(), lines 153-177: K-data is parsed and loaded, then _sync() is called.
\* Without K-data the user is asked whether to load the remote file.
InitLoad(p) ==
    LET c == cl[p] IN
    /\ pc[p] = "init_load"
    /\ IF lsData[c] = None
          THEN \E loadRemote \in BOOLEAN :
                 IF loadRemote
                    THEN Throw(p, "RemoteDataLoad", "") /\ UNCHANGED storeVars
                    ELSE /\ pc' = [pc EXCEPT ![p] = "sync_wait"]
                         /\ loc' = [loc EXCEPT ![p] = BeginSync(c, @, types[c])]
                         /\ UNCHANGED <<storeVars, diskVars, out>>
       ELSE IF ~Decryptable(lsData[c][1]) THEN InitFail(p, "ReadLocalData")
       ELSE IF ~Parses(Decrypt(lsData[c][1])) THEN InitFail(p, "ParseJSON")
          ELSE LET o == Load(Store(c), Decrypt(lsData[c][1]), 1) IN
               /\ SetStore(c, o.store)
               /\ IF o.err # ""
                     THEN Throw(p, o.err, "")
                     ELSE /\ pc' = [pc EXCEPT ![p] = "sync_wait"]
                          /\ loc' = [loc EXCEPT ![p] =
                                        BeginSync(c, @, o.store.types)]
                          /\ UNCHANGED <<diskVars, out>>
    /\ UNCHANGED <<now, issued, callVars, srvVars, cl, inited, nops>>

\* ------------------------------------------------------------ steps of _sync
\* The server answers the `hash` query.
HashReply(p) ==
    /\ pc[p] = "sync_wait"
    /\ loc' = [loc EXCEPT ![p].remote = SrvHash(srv)]
    /\ pc' = [pc EXCEPT ![p] = "sync_cmp"]
    /\ UNCHANGED <<now, storeVars, issued, callVars, diskVars, srvVars, cl, out,
                   inited, nops>>

\* xhrPost, lines 865-916: on a network error or a status other than 200 the
\* event handler throws and the promise is never settled; the call that
\* awaits it never resumes.
RequestError(p) ==
    /\ \/ pc[p] \in {"sync_wait", "rec_wait"}
       \/ pc[p] = "mut_wait" /\ loc[p].wdone /\ ~loc[p].rdone
    /\ pc' = [pc EXCEPT ![p] = "hung"]
    /\ UNCHANGED <<now, storeVars, issued, callVars, diskVars, srvVars, cl, loc,
                   out, inited, nops>>

\* _sync, lines 366-389, and _reconcile, lines 411-470: the digests are
\* compared; equal, K-sync is set and _sync returns; different, the local
\* activity since the last sync is compiled and posted.
SyncCmp(p) ==
    LET c == cl[p]
        l == loc[p]
    IN
    /\ pc[p] = "sync_cmp"
    /\ IF Succeeds(l)
          THEN /\ SetLastSync(c, now)
               /\ Return(p, [l EXCEPT !.sync = now])
               /\ UNCHANGED lsData
          ELSE /\ pc' = [pc EXCEPT ![p] = "rec_wait"]
               /\ loc' = [loc EXCEPT ![p].req =
                             [sync |-> LastSync(c),
                              instances |-> Compile(Store(c), LastSync(c))]]
               /\ UNCHANGED <<out, diskVars>>
    /\ UNCHANGED <<now, storeVars, issued, callVars, srvVars, cl, inited, nops>>

\* The server runs the `reconcile` query and answers.
Reconciled(p, r) ==
    /\ srv' = r.S
    /\ srvDeleted' = r.SD
    /\ loc' = [loc EXCEPT ![p].resp = r.response]
ReconcileReply(p) ==
    /\ pc[p] = "rec_wait"
    /\ Reconciled(p, Reconcile(srv, srvDeleted, loc[p].req))
    /\ pc' = [pc EXCEPT ![p] = "rec_apply"]
    /\ UNCHANGED <<now, storeVars, issued, callVars, diskVars, cl, out, inited,
                   nops>>

\* _reconcile, lines 472-530: the response is applied to the records in
\* memory, then the result takes the response's hash and a new local digest.
RecApply(p) ==
    LET c == cl[p]
        l == loc[p]
        o == ApplyResponse(Store(c), l.resp.data)
    IN
    /\ pc[p] = "rec_apply"
    /\ SetStore(c, o.store)
    /\ IF o.err # ""
          THEN SyncThrow(p, o.err)
          ELSE /\ pc' = [pc EXCEPT ![p] = "sync_verify"]
               /\ loc' = [loc EXCEPT ![p] =
                             [l EXCEPT !.reconciled = TRUE, !.remote = l.resp.hash,
                                       !.local = Hash(DataString(o.store.types))]]
               /\ UNCHANGED <<out, diskVars>>
    /\ UNCHANGED <<now, issued, callVars, srvVars, cl, inited, nops>>

\* _sync, lines 378-383: the digests are compared again; different, _sync
\* throws; equal, the data in memory is handed to DataStorage.write.
SyncVerify(p) ==
    LET c == cl[p]
        l == loc[p]
    IN
    /\ pc[p] = "sync_verify"
    /\ IF ~Succeeds(l)
          THEN SyncThrow(p, "SyncFail")
          ELSE /\ pc' = [pc EXCEPT ![p] = "sync_write"]
               /\ loc' = [loc EXCEPT ![p] =
                             [l EXCEPT !.sync = now, !.snap = DataString(types[c])]]
               /\ UNCHANGED <<out, diskVars>>
    /\ UNCHANGED <<now, storeVars, issued, callVars, srvVars, cl, inited, nops>>

\* DataStorage.write, line 383, sets K-data.
SyncWrite(p) ==
    /\ pc[p] = "sync_write"
    /\ Write(cl[p], loc[p].snap)
    /\ pc' = [pc EXCEPT ![p] = "sync_commit"]
    /\ UNCHANGED <<now, storeVars, issued, callVars, srvVars, cl, loc, out, inited,
                   nops>>

\* _sync, lines 388-395, after the write.
SyncCommit(p) ==
    /\ pc[p] = "sync_commit"
    /\ SetLastSync(cl[p], loc[p].sync)
    /\ Return(p, loc[p])
    /\ UNCHANGED <<now, storeVars, issued, callVars, lsData, srvVars, cl, inited,
                   nops>>

\* ------------------------------------------------------------ save, edit
\* save, lines 205-225, and edit, lines 259-289: the record store is changed,
\* the write of K-data is started and the query is posted.
Mutate(p) ==
    LET c == cl[p]
        l == loc[p]
        id == NewID(maxID[c], now)
        inst == IF l.op = "save" THEN [l.inst EXCEPT !.rec._created = id.id]
                                 ELSE [l.inst EXCEPT !.rec._modified = now]
        o == IF l.op = "save" THEN Add([Store(c) EXCEPT !.maxID = id.maxID], inst)
                              ELSE Replace(Store(c), inst)
    IN
    /\ pc[p] = "mutate"
    /\ SetStore(c, o.store)
    /\ issued' = IF l.op = "save" THEN [issued EXCEPT ![c] = Append(@, id.id)]
                                  ELSE issued
    /\ IF o.err # ""
          THEN IF l.op = "save" THEN Throw(p, o.err, "")
                                ELSE Throw(p, "EditLocalHash", o.err)
          ELSE /\ pc' = [pc EXCEPT ![p] = "mut_wait"]
               /\ loc' = [loc EXCEPT ![p] =
                             [l EXCEPT !.inst = inst, !.local = None, !.remote = None,
                                       !.sync = 0, !.reconciled = FALSE,
                                       !.req = None, !.resp = None,
                                       !.snap = DataString(o.store.types)]]
               /\ UNCHANGED <<out, diskVars>>
    /\ UNCHANGED <<now, callVars, srvVars, cl, inited, nops>>

\* save, lines 228-231, and edit, lines 291-300: once the write and the POST
\* have both settled, _sync(local, remote) is called with their values.
Joined(c, l) ==
    IF l.wdone /\ l.rdone THEN [l EXCEPT !.phase = "final", !.ls0 = LastSync(c)]
                          ELSE l
\* A save that calls its concluding _sync as soon as the write has settled.
MutJoinsOnWrite(l) == IF l.wdone THEN "sync_cmp" ELSE "mut_wait"
AfterJoin(l) == IF l.wdone /\ l.rdone THEN "sync_cmp" ELSE "mut_wait"

\* DataStorage.write sets K-data and resolves to the digest of what it wrote.
MutWrite(p) ==
    LET c == cl[p]
        l == [loc[p] EXCEPT !.wdone = TRUE, !.local = WriteDigest(loc[p].snap)]
    IN
    /\ pc[p] = "mut_wait" /\ ~loc[p].wdone
    /\ Write(c, loc[p].snap)
    /\ loc' = [loc EXCEPT ![p] = Joined(c, l)]
    /\ pc' = [pc EXCEPT ![p] = AfterJoin(l)]
    /\ UNCHANGED <<now, storeVars, issued, callVars, srvVars, cl, out, inited, nops>>

\* The `add` query: the record is added to its type and the new hash returned.
AddReply(p) ==
    LET c == cl[p]
        t == loc[p].inst.type
        S == [srv EXCEPT ![t] = SrvAdd(@, ToJSON(loc[p].inst.rec))]
        l == [loc[p] EXCEPT !.rdone = TRUE, !.remote = SrvHash(S)]
    IN
    /\ pc[p] = "mut_wait" /\ ~loc[p].rdone /\ loc[p].op = "save"
    /\ srv' = S
    /\ loc' = [loc EXCEPT ![p] = Joined(c, l)]
    /\ pc' = [pc EXCEPT ![p] = AfterJoin(l)]
    /\ UNCHANGED <<now, storeVars, issued, callVars, diskVars, srvDeleted, cl, out,
                   inited, nops>>

\* The `edit` query: replace() of utils.php; what it echoes is the response
\* when it finds no match or several.
EditReply(p) ==
    LET c == cl[p]
        t == loc[p].inst.type
        r == SrvReplace(srv[t], ToJSON(loc[p].inst.rec))
        S == [srv EXCEPT ![t] = r.container]
        l == [loc[p] EXCEPT !.rdone = TRUE,
                            !.remote = IF r.echo = "" THEN SrvHash(S)
                                       ELSE [echo |-> r.echo]]
    IN
    /\ pc[p] = "mut_wait" /\ ~loc[p].rdone /\ loc[p].op = "edit"
    /\ srv' = S
    /\ loc' = [loc EXCEPT ![p] = Joined(c, l)]
    /\ pc' = [pc EXCEPT ![p] = AfterJoin(l)]
    /\ UNCHANGED <<now, storeVars, issued, callVars, diskVars, srvDeleted, cl, out,
                   inited, nops>>

\* The page is loaded again: a new DataStorage over the same local storage.
Restart(c) ==
    /\ nops < MaxOps
    /\ \A p \in Procs : cl[p] = c => pc[p] \in {"idle", "hung"}
    /\ types' = [types EXCEPT ![c] = EmptyStore]
    /\ deleted' = [deleted EXCEPT ![c] = EmptyStore]
    /\ maxID' = [maxID EXCEPT ![c] = 0]
    /\ issued' = [issued EXCEPT ![c] = <<>>]
    /\ inited' = [inited EXCEPT ![c] = FALSE]
    /\ pc' = [p \in Procs |-> IF cl[p] = c THEN "idle" ELSE pc[p]]
    /\ loc' = [p \in Procs |-> IF cl[p] = c THEN NoLoc
                               ELSE [loc[p] EXCEPT !.quiet = FALSE]]
    /\ out' = [p \in Procs |-> IF cl[p] = c THEN NoOut ELSE out[p]]
    /\ nops' = nops + 1
    /\ UNCHANGED <<now, callVars, diskVars, srvVars, cl>>

\* The K-data item is damaged in localStorage before init() reads it: it no
\* longer decrypts, or decrypts to a text that is not JSON.
Damage(c) ==
    /\ ~inited[c] /\ lsData[c] # None
    /\ Decryptable(lsData[c][1]) /\ Parses(Decrypt(lsData[c][1]))
    /\ \A p \in Procs : cl[p] = c => pc[p] = "idle"
    /\ \E item \in {Undecryptable, Encrypt(Unparsable)} :
         lsData' = [lsData EXCEPT ![c] = <<item>>]
    /\ UNCHANGED <<now, storeVars, issued, callVars, lsSync, srvVars, cl, pc, loc,
                   out, inited, nops>>

\* ------------------------------------------------------------ specifications
Step(p) ==
    \/ CallSync(p)
    \/ CallSave(p)
    \/ CallEdit(p)
    \/ CallDelete(p)
    \/ CallInit(p)
    \/ InitLoad(p)
    \/ HashReply(p)
    \/ RequestError(p)
    \/ SyncCmp(p)
    \/ ReconcileReply(p)
    \/ RecApply(p)
    \/ SyncVerify(p)
    \/ SyncWrite(p)
    \/ SyncCommit(p)
    \/ Mutate(p)
    \/ MutWrite(p)
    \/ AddReply(p)
    \/ EditReply(p)

Next ==
    \/ Tick
    \/ \E p \in Procs : Step(p)
    \/ \E c \in Clients : Restart(c)
    \/ \E c \in Clients : Damage(c)

\* Two clients of one server, each with one call in flight at a time.
Init == InitWith([p \in Procs |-> p])
Spec == Init /\ [][Next]_vars

\* One client whose calls are started without awaiting the one before.
InitOverlap == InitWith([p \in Procs |-> 1])
SpecOverlap == InitOverlap /\ [][Next]_vars

\* ------------------------------------------------------------ reconciler alone
\* The elements of `set`, ascending by `_created`, in a server container.
RECURSIVE SrvContainer(_)
SrvContainer(set) ==
    IF set = {} THEN <<>>
    ELSE LET x == CHOOSE y \in set : \A z \in set : y._created <= z._created
         IN SrvAdd(SrvContainer(set \ {x}), x)

\* The records and tombstones a data file may hold for one type: any version
\* of an id, and several of one id, as repeated add queries leave them.
ServerRecords ==
    {ToJSON(Record(id, m, 0)) : id \in Ids, m \in {0} \cup 1..MaxClock}
ServerTombstones == {Tombstone(id, d) : id \in Ids, d \in 1..MaxClock}
ServerFiles ==
    {[S |-> (TypeList[1] :> SrvContainer(recs)) @@ EmptyStore,
      SD |-> (TypeList[1] :> SrvContainer(dels)) @@ EmptyStore] :
        recs \in {r \in SUBSET ServerRecords : Cardinality(r) <= MaxHeld},
        dels \in {d \in SUBSET ServerTombstones : Cardinality(d) <= 1}}

\* What a client's delta says of one id: nothing, or the id under one rank.
Silent == [rank |-> ""]
ClientEntries(id) ==
    {Silent}
    \cup {[rank |-> "new", jobj |-> ToJSON(Record(id, 0, v))] : v \in Vals}
    \cup {[rank |-> "modified", jobj |-> ToJSON(Record(id, m, v))] :
               m \in 1..MaxClock, v \in EditedVals}
    \cup {[rank |-> "deleted", jobj |-> Tombstone(id, d)] : d \in 1..MaxClock}
RankIndex(entries, rank) ==
    [id \in {i \in DOMAIN entries : entries[i].rank = rank} |-> entries[id].jobj]
DeltaOf(entries) ==
    LET ranks == Prune([new |-> RankIndex(entries, "new"),
                        modified |-> RankIndex(entries, "modified"),
                        deleted |-> RankIndex(entries, "deleted")])
    IN [t \in {u \in {TypeList[1]} : DOMAIN ranks # {}} |-> ranks]
Deltas ==
    {DeltaOf(entries) :
        entries \in {e \in [Ids -> UNION {ClientEntries(id) : id \in Ids}] :
                        \A id \in Ids : e[id] \in ClientEntries(id)}}

\* One reconcile query: the data file is read, merged with the request and
\* written back, and {hash, data} is the response.
CallReconcile ==
    /\ ncalls < MaxReconciles
    /\ \E L \in 0..MaxClock, delta \in Deltas :
         LET data == [sync |-> L, instances |-> delta]
             r == Reconcile(srv, srvDeleted, data)
         IN /\ srv' = r.S
            /\ srvDeleted' = r.SD
            /\ call' = [op |-> "reconcile",
                        arg |-> [S |-> srv, SD |-> srvDeleted, data |-> data],
                        ret |-> r.response, err |-> ""]
    /\ ncalls' = ncalls + 1
    /\ UNCHANGED <<now, storeVars, issued, diskVars, cl, pc, loc, out, inited, nops>>

InitReconcile ==
    /\ InitClients([p \in Procs |-> p])
    /\ \E file \in ServerFiles : srv = file.S /\ srvDeleted = file.SD

\* One query against any data file.
FirstReconcile == ncalls = 0 /\ CallReconcile
SpecReconcile == InitReconcile /\ [][FirstReconcile]_vars

\* The queries of the clients of one server, from an empty data file.
SpecQueries == Init /\ [][CallReconcile]_vars

\* ------------------------------------------------------------ utils.php alone
\* add($container, $inst) and replace($container, $newInst) on the container
\* of the first type, with any record.
CallSrvAdd ==
    /\ ncalls < MaxCalls
    /\ \E inst \in ServerRecords :
         /\ srv' = [srv EXCEPT ![TypeList[1]] = SrvAdd(@, inst)]
         /\ call' = [op |-> "srv_add",
                     arg |-> [container |-> srv[TypeList[1]], inst |-> inst],
                     ret |-> 0, err |-> ""]
    /\ ncalls' = ncalls + 1
    /\ UNCHANGED <<now, storeVars, issued, diskVars, srvDeleted, cl, pc, loc, out,
                   inited, nops>>
CallSrvReplace ==
    /\ ncalls < MaxCalls
    /\ \E inst \in ServerRecords :
         /\ srv' = [srv EXCEPT ![TypeList[1]] = SrvReplace(@, inst).container]
         /\ call' = [op |-> "srv_replace",
                     arg |-> [container |-> srv[TypeList[1]], inst |-> inst],
                     ret |-> 0, err |-> SrvReplace(srv[TypeList[1]], inst).echo]
    /\ ncalls' = ncalls + 1
    /\ UNCHANGED <<now, storeVars, issued, diskVars, srvDeleted, cl, pc, loc, out,
                   inited, nops>>

NextUtils == CallSrvAdd \/ CallSrvReplace
\* The helpers of utils.php under calls in any order, from any data file.
SpecUtils == InitReconcile /\ [][NextUtils]_vars

\* ------------------------------------------------------------ DSSyncResult alone
\* `sync` of a DSSyncResult not yet confirmed: 0 in the class DataStorage.js
\* runs with (part_007, line 255), -1 in DSTypeDefs.ts (line 293).
NotConfirmedJS == 0
NotConfirmedTS == -1
NotConfirmed(class) == IF class = "ts" THEN NotConfirmedTS ELSE NotConfirmedJS

\* new DSSyncResult(local, remote) of either class.
SyncResult(class, local, remote) ==
    [class |-> class, local |-> local, remote |-> remote,
     sync |-> NotConfirmed(class)]

\* part_007 `get succeeds` at time t: the value, and the object afterwards.
GetSucceedsJS(result, t) ==
    IF ~Succeeds(result) THEN [value |-> FALSE, result |-> result, err |-> ""]
    ELSE [value |-> TRUE,
          result |-> IF result.sync = 0 THEN [result EXCEPT !.sync = t] ELSE result,
          err |-> ""]
\* DSTypeDefs.ts `get succeeds` at time t.
GetSucceedsTS(result, t) ==
    IF result.local = None \/ result.remote = None
       THEN [value |-> FALSE, result |-> result, err |-> "Error"]
    ELSE IF result.local # result.remote
       THEN [value |-> FALSE, result |-> result, err |-> ""]
    ELSE [value |-> TRUE,
          result |-> IF result.sync # NotConfirmedTS THEN [result EXCEPT !.sync = t]
                     ELSE result,
          err |-> ""]
GetSucceeds(result, t) ==
    IF result.class = "ts" THEN GetSucceedsTS(result, t) ELSE GetSucceedsJS(result, t)
\* `get hash`: this.succeeds ? this.remote : ''. None stands for ''.
GetHash(result, t) ==
    [GetSucceeds(result, t) EXCEPT !.value = IF @ THEN result.remote ELSE None]

\* The digests a DSSyncResult is built with: two strings, and a value that is
\* not a string.
ResultDigests ==
    {None, Hash(DataString(EmptyStore)),
     Hash(DataString([EmptyStore EXCEPT ![TypeList[1]] = <<Record(1, 0, 0)>>]))}

\* The DSSyncResult the last evaluation left.
TheResult == call.ret.result

EvalSucceeds ==
    /\ ncalls < MaxCalls
    /\ call' = [op |-> "succeeds", arg |-> TheResult,
                ret |-> GetSucceeds(TheResult, now), err |-> GetSucceeds(TheResult, now).err]
    /\ ncalls' = ncalls + 1
    /\ UNCHANGED <<now, storeVars, issued, protoVars>>
EvalHash ==
    /\ ncalls < MaxCalls
    /\ call' = [op |-> "hash", arg |-> TheResult,
                ret |-> GetHash(TheResult, now), err |-> GetHash(TheResult, now).err]
    /\ ncalls' = ncalls + 1
    /\ UNCHANGED <<now, storeVars, issued, protoVars>>
\* _sync, lines 386-389, reached once `succeeds` was true: `result.sync` is
\* persisted as K-sync.
PersistSync ==
    /\ call.op = "succeeds" /\ call.err = "" /\ call.ret.value
    /\ call' = [call EXCEPT !.op = "persist", !.arg = TheResult]
    /\ SetLastSync(1, TheResult.sync)
    /\ UNCHANGED <<now, storeVars, issued, ncalls, lsData, srvVars, cl, pc, loc, out,
                   inited, nops>>

InitResult ==
    /\ now = 1
    /\ types = [c \in Clients |-> EmptyStore]
    /\ deleted = [c \in Clients |-> EmptyStore]
    /\ maxID = [c \in Clients |-> 0]
    /\ issued = [c \in Clients |-> <<>>]
    /\ \E class \in {"js", "ts"}, local \in ResultDigests, remote \in ResultDigests :
         call = [op |-> "new", arg |-> None,
                 ret |-> [value |-> FALSE, result |-> SyncResult(class, local, remote),
                          err |-> ""],
                 err |-> ""]
    /\ ncalls = 0
    /\ lsSync = [c \in Clients |-> None]
    /\ lsData = [c \in Clients |-> None]
    /\ srv = EmptyStore
    /\ srvDeleted = EmptyStore
    /\ cl = [p \in Procs |-> 1]
    /\ pc = [p \in Procs |-> "idle"]
    /\ loc = [p \in Procs |-> NoLoc]
    /\ out = [p \in Procs |-> NoOut]
    /\ inited = [c \in Clients |-> FALSE]
    /\ nops = 0

NextResult == Tick \/ EvalSucceeds \/ EvalHash \/ PersistSync

\* One DSSyncResult of either class under evaluations of its getters.
SpecResult == InitResult /\ [][NextResult]_vars

\* ------------------------------------------------------------ claims
\* C1: the LastSync value persisted under K-sync never decreases: every value
\* written is greater than or equal to the value it replaces.
C1_LastSyncNeverDecreases ==
    [][\A c \in Clients : LastSync(c)' >= LastSync(c)]_vars

\* The positions of a call inside _sync and _reconcile.
SyncStages ==
    {"sync_wait", "sync_cmp", "rec_wait", "rec_apply", "sync_verify", "sync_write",
     "sync_commit"}

\* C2: a sync call that fails -- its request is never answered, applying the
\* reconcile response throws, or the hashes still differ after the reconcile --
\* leaves LastSync at the value it had when the call started.
C2_FailedSyncKeepsLastSync ==
    [][\A p \in Procs :
         (/\ pc[p] \in SyncStages
          /\ \/ pc'[p] = "hung"
             \/ pc'[p] = "idle" /\ out'[p].err # "")
         => LastSync(cl[p])' = loc[p].ls0]_vars

\* A sync has failed with different hashes after a reconcile, on a client
\* whose LastSync was set by an earlier sync.
C2_Witness ==
    \E p \in Procs : /\ pc[p] = "idle" /\ out[p].cause = "SyncFail"
                     /\ out[p].reconciled /\ LastSync(cl[p]) > 0

\* C3: K-sync is written only by the last step of a successful sync pass, with
\* the time of that success; the steps that assign an ID, add or replace a
\* record, write K-data, post the add / edit query or compile the delta leave
\* it unchanged.
C3_LastSyncWrittenOnlyBySync ==
    [][\A c \in Clients :
         lsSync'[c] # lsSync[c] =>
            \E p \in Procs :
               /\ cl[p] = c
               /\ pc[p] \in {"sync_cmp", "sync_commit"}
               /\ loc[p].local = loc[p].remote
               /\ \/ pc'[p] = "mutate" /\ loc[p].phase = "prelim"
                  \/ /\ pc'[p] = "idle"
                     /\ out'[p].settled = "resolved" /\ out'[p].err = ""
               /\ lsSync'[c] = <<IF pc[p] = "sync_cmp" THEN now ELSE loc[p].sync>>]_vars

\* A save has added its record, written K-data and posted the add query at
\* time 2, and K-sync still holds the time 1 of the preliminary sync.
C3_Witness ==
    \E p \in Procs : /\ pc[p] = "sync_cmp" /\ loc[p].phase = "final"
                     /\ loc[p].op = "save" /\ loc[p].inst.rec._created = 2
                     /\ lsData[cl[p]] # None /\ LastSync(cl[p]) = 1

\* C4: when the local and the remote hash are equal at the comparing step,
\* the sync has sent no reconcile query and sends none, the record store is as
\* it was, K-sync is set to the current time, and the caller gets a frozen
\* result with succeeds = true and hash = the remote hash.
C4_EqualHashesPath ==
    [][\A p \in Procs :
         LET c == cl[p] IN
         /\ (pc[p] = "sync_wait" /\ pc'[p] # "sync_wait") =>
               /\ types'[c] = types[c] /\ deleted'[c] = deleted[c]
               /\ maxID'[c] = maxID[c]
         /\ (/\ pc[p] = "sync_cmp" /\ pc'[p] # "sync_cmp"
             /\ loc[p].local = loc[p].remote) =>
               /\ loc[p].req = None /\ pc'[p] # "rec_wait"
               /\ srv' = srv /\ srvDeleted' = srvDeleted
               /\ types'[c] = types[c] /\ deleted'[c] = deleted[c]
               /\ maxID'[c] = maxID[c]
               /\ lsSync'[c] = <<now>>
               /\ IF loc[p].phase = "prelim"
                     THEN pc'[p] = "mutate" /\ loc'[p].sync = now
                     ELSE /\ pc'[p] = "idle"
                          /\ out'[p].settled = "resolved" /\ out'[p].err = ""
                          /\ out'[p].frozen /\ out'[p].sync = now
                          /\ out'[p].local = out'[p].remote
                          /\ ResultHash(out'[p]) = loc[p].remote]_vars

\* A sync of a store that holds a record has returned without a reconcile.
C4_Witness ==
    \E p \in Procs : /\ pc[p] = "idle" /\ out[p].op = "sync"
                     /\ out[p].settled = "resolved" /\ out[p].err = ""
                     /\ ~out[p].reconciled
                     /\ Len(types[cl[p]][TypeList[1]]) > 0

\* C5: after a reconcile the sync commits only if the recomputed local hash
\* equals the hash of the reconcile response: then K-data is rewritten with
\* the current serialization, after that LastSync is persisted and a
\* successful result returned; otherwise the sync fails with a sync-failed
\* error and neither K-data nor LastSync is written.
C5_CommitOnlyOnEqualHash ==
    [][\A p \in Procs :
         LET c == cl[p] IN
         /\ (pc[p] = "sync_verify" /\ pc'[p] # "sync_verify") =>
               /\ loc[p].remote = loc[p].resp.hash
               /\ lsData'[c] = lsData[c] /\ lsSync'[c] = lsSync[c]
               /\ IF loc[p].local = loc[p].remote
                     THEN pc'[p] = "sync_write"
                     ELSE pc'[p] = "idle" /\ out'[p].cause = "SyncFail"
         /\ (pc[p] = "sync_write" /\ pc'[p] # "sync_write") =>
               /\ loc[p].local = loc[p].remote
               /\ lsData'[c] = <<Encrypt(DataString(types[c]))>>
               /\ lsSync'[c] = lsSync[c]
               /\ pc'[p] = "sync_commit"
         /\ (pc[p] = "sync_commit" /\ pc'[p] # "sync_commit") =>
               /\ loc[p].local = loc[p].remote
               /\ lsData[c] = <<Encrypt(DataString(types[c]))>>
               /\ lsData'[c] = lsData[c]
               /\ lsSync'[c] = <<loc[p].sync>>
               /\ pc'[p] = "idle" =>
                     /\ out'[p].settled = "resolved" /\ out'[p].err = ""
                     /\ out'[p].frozen /\ out'[p].reconciled]_vars

\* A sync has reconciled, received a record, committed and returned.
C5_Witness ==
    \E p \in Procs : /\ pc[p] = "idle" /\ out[p].reconciled
                     /\ out[p].settled = "resolved" /\ out[p].err = ""
                     /\ lsData[cl[p]] = <<Encrypt(DataString(types[cl[p]]))>>
                     /\ Len(types[cl[p]][TypeList[1]]) > 0
                     /\ LastSync(cl[p]) = out[p].sync

\* C6: when the reconcile response holds no conflict, applying it leaves the
\* client's records with a data string whose hash is the hash the response
\* carries.
C6_ApplyYieldsAuthoritativeHash ==
    [][\A p \in Procs :
         (/\ pc[p] = "rec_apply" /\ pc'[p] # "rec_apply"
          /\ ~HasConflict(loc[p].resp))
         => Hash(DataString(types'[cl[p]])) = loc[p].resp.hash]_vars

\* C7: a sync that a client runs while no other call is in flight or starts,
\* and whose reconcile response holds no conflict, succeeds and leaves the
\* client's active records equal to the server's.
C7_EventualConvergence ==
    \A p \in Procs :
        (/\ pc[p] = "idle" /\ out[p].op = "sync" /\ out[p].settled # ""
         /\ out[p].quiet /\ ~out[p].conflict)
        => out[p].err = "" /\ out[p].converged

StrictlyDecreasing(container) ==
    \A i \in 1..Len(container) - 1 : container[i]._created > container[i + 1]._created

\* C8: every ID that _newID returns is strictly greater than every ID it
\* returned earlier on the same instance, and _newID leaves _maxID equal to
\* the ID it returned.
C8_NewIDStrictlyIncreasing ==
    /\ \A c \in Clients : \A i, j \in 1..Len(issued[c]) :
          i < j => issued[c][i] < issued[c][j]
    /\ call.op = "newID" => maxID[1] = call.ret

\* C9: after any sequence of add, replace and remove, every container of
\* active records and every container of tombstones is strictly decreasing
\* in `_created`.
C9_ContainersStrictlyDecreasing ==
    \A c \in Clients : \A t \in TypeNames :
        /\ StrictlyDecreasing(types[c][t])
        /\ StrictlyDecreasing(deleted[c][t])

\* C10: no resurrection: a type never holds a tombstone and an active record
\* with the same `_created`, so an add that matches a tombstone is rejected.
C10_NoResurrection ==
    \A c \in Clients : \A t \in TypeNames :
        \A i \in 1..Len(deleted[c][t]) : \A j \in 1..Len(types[c][t]) :
            deleted[c][t][i]._created # types[c][t][j]._created

\* ------------------------------------------------------------ C11
\* C11: in every reachable state `_maxID` is at least the `_created` of every
\* active record and of every tombstone, and no call of _newID, _add,
\* _replace, _remove or the application of a reconcile response decreases it.
MaxIDCovers(c) ==
    \A t \in TypeNames :
      /\ \A i \in 1..Len(types[c][t]) : maxID[c] >= types[c][t][i]._created
      /\ \A i \in 1..Len(deleted[c][t]) : maxID[c] >= deleted[c][t][i]._created
C11_MaxIDCoversAndNeverDecreases ==
    /\ [](\A c \in Clients : MaxIDCovers(c))
    /\ [][\A c \in Clients : maxID'[c] >= maxID[c]]_vars

\* A response added a record with a larger id than any before, next to a
\* tombstone and another active record.
C11_Witness ==
    /\ call.op = "apply" /\ call.err = ""
    /\ maxID[1] = MaxClock
    /\ \E t \in TypeNames :
         /\ Len(deleted[1][t]) > 0
         /\ Len(types[1][t]) > 0 /\ types[1][t][1]._created = MaxClock
\* ------------------------------------------------------------ C12
\* C12: save/edit calls of one DataStorage instance are serialized: while one
\* call is between the start of its preliminary sync and the end of its
\* concluding sync, no other call on the same instance is inside its own
\* pipeline.
InPipeline(p) ==
    /\ loc[p].op \in {"save", "edit"}
    /\ pc[p] \notin {"idle", "hung"}
C12_PublicCallsSerialized ==
    \A p, q \in Procs :
      (p # q /\ cl[p] = cl[q]) => ~(InPipeline(p) /\ InPipeline(q))
\* ------------------------------------------------------------ C13
\* The save() calls of one instance that have been given their ID.
Saved(p) == loc[p].op = "save" /\ loc[p].inst.rec._created > 0
\* C13: save() calls issued on one instance, awaited or not, get pairwise
\* distinct IDs that increase strictly in call order.
C13_SaveIDsIncreaseInCallOrder ==
    \A p, q \in Procs :
      (cl[p] = cl[q] /\ Saved(p) /\ Saved(q) /\ loc[p].seq < loc[q].seq)
        => loc[p].inst.rec._created < loc[q].inst.rec._created
\* ------------------------------------------------------------ C14
\* The ids a compiled delta lists for type t under rank r.
Ranked(instances, t, r) == DOMAIN RankOf(RanksOf(instances, t), r)
\* The ids rank r is to hold for type t of client c and timestamp `since`.
Expected(c, t, r, since) ==
    LET active == types[c][t]
        dels == deleted[c][t]
    IN IF r = "new"
          THEN {active[i]._created : i \in {j \in 1..Len(active) :
                   active[j]._created > since}}
       ELSE IF r = "modified"
          THEN {active[i]._created : i \in {j \in 1..Len(active) :
                   active[j]._created <= since /\ active[j]._modified > since}}
       ELSE IF r = "deleted"
          THEN {dels[i]._created : i \in {j \in 1..Len(dels) :
                   dels[j]._deleted # Undefined /\ dels[j]._deleted > since}}
       ELSE {}
\* C14: the delta compiled for `since` lists under `new` the active records
\* created after `since`, under `modified` the active records created up to
\* `since` and modified after it, under `deleted` the tombstones deleted
\* after `since`, and nothing else; no id is under two ranks, and there is no
\* rank `conflict`.
C14_DeltaClassification ==
    call.op = "compile" =>
      \A t \in TypeNames :
        /\ \A r \in {"new", "modified", "deleted", "conflict"} :
             Ranked(call.ret.instances, t, r) = Expected(1, t, r, call.ret.sync)
        /\ \A r, q \in {"new", "modified", "deleted"} :
             r # q => Ranked(call.ret.instances, t, r)
                        \cap Ranked(call.ret.instances, t, q) = {}
        /\ "conflict" \notin DOMAIN RanksOf(call.ret.instances, t)

\* A delta with a record under `new`, another under `modified`, and a
\* tombstone in the store that is left out.
C14_Witness ==
    /\ call.op = "compile"
    /\ \E t \in TypeNames :
         /\ Ranked(call.ret.instances, t, "new") # {}
         /\ Ranked(call.ret.instances, t, "modified") # {}
    /\ \E t \in TypeNames : Len(deleted[1][t]) > 0
\* ------------------------------------------------------------ C15
\* The `_created` of the records or tombstones in a container.
IdsIn(container) == {container[i]._created : i \in 1..Len(container)}
\* C15: _add of an object that is in no container fails with the type error
\* when its type is not configured, and with the ID conflict error when an
\* active record or a tombstone of its type has its id, leaving containers,
\* tombstones and _maxID as they were; otherwise the record is inserted, the
\* container is sorted and _maxID is at least the record's id.
AddAsClaimed(inst) ==
    LET t == inst.type
        id == inst.rec._created
    IN IF t \notin TypeNames
          THEN call'.err = "AddInvalidType" /\ UNCHANGED storeVars
       ELSE IF id \in IdsIn(types[1][t]) \cup IdsIn(deleted[1][t])
          THEN call'.err = "AddIDConflict" /\ UNCHANGED storeVars
       ELSE /\ call'.err = ""
            /\ IdsIn(types'[1][t]) = IdsIn(types[1][t]) \cup {id}
            /\ Len(types'[1][t]) = Len(types[1][t]) + 1
            /\ StrictlyDecreasing(types'[1][t])
            /\ maxID'[1] = UpdateMaxID(maxID[1], id)
C15_AddFailsOnConflict ==
    [][(call'.op = "add" /\ ncalls' = ncalls + 1 /\ call'.arg.alias = 0)
         => AddAsClaimed(call'.arg)]_vars
\* ------------------------------------------------------------ C16
\* C16: _replace of a record of a configured type fails with the no-match
\* error, leaving the store unchanged, when no active record of the type has
\* its id; otherwise the ids and the length of the container stay as they
\* were and the record stored under that id is the new version.
ReplaceAsClaimed(inst) ==
    LET t == inst.type
        id == inst.rec._created
    IN IF id \notin IdsIn(types[1][t])
          THEN call'.err = "ReplaceNoMatch" /\ UNCHANGED storeVars
          ELSE /\ call'.err = ""
               /\ IdsIn(types'[1][t]) = IdsIn(types[1][t])
               /\ Len(types'[1][t]) = Len(types[1][t])
               /\ \A i \in 1..Len(types'[1][t]) :
                    types'[1][t][i]._created = id => types'[1][t][i] = inst.rec
RemoveAsClaimed(inst, del) ==
    LET t == inst.type
        id == inst.rec._created
    IN IF inst.alias > 0
          THEN /\ call'.err = ""
               /\ types'[1][t] = SpliceOut(types[1][t], inst.alias)
               /\ IF del
                     THEN /\ now > 0
                          /\ \E i \in 1..Len(deleted'[1][t]) :
                               deleted'[1][t][i] = Tombstone(id, now)
                          /\ Len(deleted'[1][t]) = Len(deleted[1][t]) + 1
                     ELSE deleted' = deleted
       ELSE IF id \notin IdsIn(types[1][t])
          THEN call'.err = "Replace" /\ types' = types /\ deleted' = deleted
       ELSE TRUE
C17_RemoveStampsTombstone ==
    [][(call'.op = "remove" /\ ncalls' = ncalls + 1
          /\ call'.arg.inst.type \in TypeNames)
         => RemoveAsClaimed(call'.arg.inst, call'.arg.del)]_vars
Damaged(c) ==
    /\ lsData[c] # None
    /\ ~(Decryptable(lsData[c][1]) /\ Parses(Decrypt(lsData[c][1])))
\* C19: when init() reads a K-data item that cannot be decrypted or parsed,
\* its promise is rejected with the error, no _sync is started, and K-sync
\* and the store in memory are as they were.
C19_InitFailsOnDamagedData ==
    [][\A p \in Procs :
         (pc[p] = "init_load" /\ pc'[p] # "init_load" /\ Damaged(cl[p])) =>
           /\ out'[p].settled = "rejected"
           /\ out'[p].err \in {"ReadLocalData", "ParseJSON"}
           /\ pc'[p] = "idle"
           /\ lsSync'[cl[p]] = lsSync[cl[p]]
           /\ types'[cl[p]] = types[cl[p]]
           /\ deleted'[cl[p]] = deleted[cl[p]]
           /\ maxID'[cl[p]] = maxID[cl[p]]]_vars

\* init() was rejected over a damaged item, with a record in memory and a
\* LastSync on disk.
C19_Witness ==
    \E p \in Procs :
      /\ out[p].op = "init" /\ out[p].settled = "rejected"
      /\ out[p].err \in {"ReadLocalData", "ParseJSON"}
      /\ Damaged(cl[p])
      /\ LastSync(cl[p]) > 0
      /\ \E t \in TypeNames : Len(types[cl[p]][t]) > 0
\* ------------------------------------------------------------ C20
\* C20: the ID save() assigns (line 206) is strictly greater than the
\* LastSync its preliminary sync has just recorded in K-sync.
C20_SaveIDAfterLastSync ==
    [][\A p \in Procs :
         (pc[p] = "mutate" /\ loc[p].op = "save" /\ pc'[p] = "mut_wait") =>
           loc'[p].inst.rec._created > LastSync(cl[p])]_vars
\* ------------------------------------------------------------ C21
\* The steps of one save() call p, each as the claim orders it.
\* The ID is assigned, and the record added, only in the step after the
\* preliminary sync, and that step is reached only by a preliminary sync
\* that succeeded and recorded its time.
SaveAssignsAfterPrelim(p) ==
    /\ (loc'[p].inst.rec._created # loc[p].inst.rec._created /\ loc'[p].op = "save")
         => (pc[p] = "mutate" /\ loc[p].op = "save")
    /\ (pc'[p] = "mutate" /\ pc[p] # "mutate")
         => /\ loc[p].phase = "prelim"
            /\ Succeeds(loc'[p])
            /\ lsSync'[cl[p]] = <<loc'[p].sync>>
\* The write and the POST have had no effect when the add is done, and are
\* then both pending.
SaveStartsBothAfterAdd(p) ==
    (pc[p] = "mutate" /\ pc'[p] = "mut_wait" /\ loc[p].op = "save")
      => /\ loc'[p].inst.rec._created \in IdsIn(types'[cl[p]][loc'[p].inst.type])
         /\ ~loc'[p].wdone /\ ~loc'[p].rdone
         /\ lsData' = lsData /\ srv' = srv
\* The concluding _sync is called when both have settled, with their two
\* values, and sends no `hash` query.
SaveJoinsBoth(p) ==
    (pc[p] = "mut_wait" /\ pc'[p] \notin {"mut_wait", "hung"} /\ loc[p].op = "save")
      => /\ loc'[p].wdone /\ loc'[p].rdone
         /\ loc'[p].phase = "final"
         /\ loc'[p].local = WriteDigest(loc'[p].snap)
         /\ loc'[p].remote # None
         /\ pc'[p] = "sync_cmp"
\* Given equal values, the concluding _sync succeeds at once: no reconcile
\* query, K-sync set to the time of the comparison.
SaveFinalSucceeds(p) ==
    (pc[p] = "sync_cmp" /\ pc'[p] # "sync_cmp" /\ loc[p].op = "save"
       /\ loc[p].phase = "final" /\ loc[p].local = loc[p].remote)
      => /\ pc'[p] = "idle"
         /\ out'[p].settled = "resolved" /\ ~out'[p].reconciled
         /\ lsSync'[cl[p]] = <<now>> /\ now >= loc[p].ls0
         /\ srv' = srv
\* C21: save() runs its preliminary sync to success, then assigns the ID and
\* adds the record, then starts the K-data write and the `add` POST, neither
\* waiting for the other, then calls the concluding sync with the two hashes
\* once both have settled; equal hashes make it succeed without a hash query
\* or a reconcile and set LastSync.
C21_SaveOrder ==
    /\ [][\A p \in Procs : /\ SaveAssignsAfterPrelim(p)
                            /\ SaveStartsBothAfterAdd(p)
                            /\ SaveJoinsBoth(p)
                            /\ SaveFinalSucceeds(p)]_vars
    /\ [](\A p \in Procs :
           (pc[p] = "mut_wait" /\ loc[p].op = "save") =>
             /\ ~loc[p].wdone => ENABLED MutWrite(p)
             /\ ~loc[p].rdone => ENABLED AddReply(p))

\* A save has returned the result of its concluding sync, which succeeded on
\* the two hashes without a reconcile; the record is on both sides.
C21_Witness ==
    \E p \in Procs :
      /\ out[p].op = "save" /\ out[p].phase = "final"
      /\ out[p].settled = "resolved" /\ ~out[p].reconciled
      /\ out[p].local = out[p].remote
      /\ LastSync(cl[p]) = out[p].sync
      /\ Len(types[cl[p]][TypeList[1]]) > 0
      /\ DataString(types[cl[p]]) = ServerString(srv)
\* ------------------------------------------------------------ C22
\* Call p is a save or an edit inside its preliminary _sync.
InPrelimSync(p) ==
    /\ loc[p].op \in {"save", "edit"} /\ loc[p].phase = "prelim"
    /\ pc[p] \in {"sync_wait", "sync_cmp", "rec_wait", "rec_apply", "sync_verify",
                  "sync_write", "sync_commit"}
C23_ModifiedAfterCreated ==
    \A c \in Clients : \A t \in TypeNames : \A i \in 1..Len(types[c][t]) :
      types[c][t][i]._modified # 0
        => types[c][t][i]._modified > types[c][t][i]._created
\* ------------------------------------------------------------ C24
\* C24: when delete(record) has returned for a record of the store, a record
\* that was active is gone from its container and a tombstone with its
\* `_created` exists.
C24_DeleteTombstones ==
    [][\A p \in Procs :
         (out'[p].op = "delete" /\ out'[p].settled = "returned"
            /\ nops' = nops + 1 /\ pc[p] = "idle" /\ pc'[p] = "idle"
            /\ out'[p] # out[p]) =>
           \E t \in TypeNames : \E i \in 1..Len(types[cl[p]][t]) :
             /\ types[cl[p]][t][i]._created \notin IdsIn(types'[cl[p]][t])
             /\ types[cl[p]][t][i]._created \in IdsIn(deleted'[cl[p]][t])]_vars
\* ------------------------------------------------------------ C25
\* C25: applying a response that lists ids under `modified` and has no `new`
\* partition replaces, for each such id held by the store, the local record
\* by the version listed under `modified`.
C25_ModifiedReplaces ==
    [][(call'.op = "apply" /\ ncalls' = ncalls + 1) =>
         \A t \in DOMAIN call'.arg :
           ("modified" \in DOMAIN call'.arg[t] /\ "new" \notin DOMAIN call'.arg[t]
              /\ DOMAIN call'.arg[t].modified \subseteq IdsIn(types[1][t])) =>
             /\ call'.err = ""
             /\ \A id \in DOMAIN call'.arg[t].modified :
                  \E i \in 1..Len(types'[1][t]) :
                    types'[1][t][i] = FromJSON(call'.arg[t].modified[id])]_vars
\* ------------------------------------------------------------ C26
\* C26: applying a response that lists under `deleted` ids the store holds
\* ends without error, with those records gone from the active container and
\* a tombstone for each, so that the sync can go on to its commit.
C26_DeletedRemoves ==
    [][(call'.op = "apply" /\ ncalls' = ncalls + 1) =>
         \A t \in DOMAIN call'.arg :
           ("deleted" \in DOMAIN call'.arg[t]
              /\ DOMAIN call'.arg[t] = {"deleted"}
              /\ DOMAIN call'.arg[t].deleted \subseteq IdsIn(types[1][t])) =>
             /\ call'.err = ""
             /\ \A id \in DOMAIN call'.arg[t].deleted :
                  /\ id \notin IdsIn(types'[1][t])
                  /\ id \in IdsIn(deleted'[1][t])]_vars
\* ------------------------------------------------------------ C27
\* The ids a response lists under `conflict` for type t, and under no rank
\* that is applied.
ConflictOnly(data, t) ==
    IF t \notin DOMAIN data THEN {}
    ELSE DOMAIN RankOf(data[t], "conflict")
           \ (DOMAIN RankOf(data[t], "new") \cup DOMAIN RankOf(data[t], "modified"))
\* The records of a container with the given id.
WithId(container, id) == SelectSeq(container, LAMBDA r : r._created = id)
Queried == call.op = "reconcile"
ElementIds(container) == {container[i]._created : i \in 1..Len(container)}
ClientSent(t) == ClientRanks(RanksOf(call.arg.data.instances, t))
InputIds(t) ==
    ElementIds(call.arg.S[t]) \cup ElementIds(call.arg.SD[t]) \cup IdsOf(ClientSent(t))
Answered(t) == RanksOf(call.ret.data, t)
InState(t, id) == id \in ElementIds(srv[t]) \cup ElementIds(srvDeleted[t])
InRanks(t, id) == id \in IdsOf(ClientRanks(Answered(t)))
InConflict(t, id) == id \in DOMAIN RankOf(Answered(t), "conflict")
Elements(container) == {container[i] : i \in 1..Len(container)}
\* The client's entries of this id are in the data file as the client sent them.
Applied(t, id) ==
    \A i \in 1..Len(Versions(ClientSent(t), id)) :
        Versions(ClientSent(t), id)[i] \in Elements(srv[t]) \cup Elements(srvDeleted[t])

ChangedSince(el, L) ==
    \/ el._created > L
    \/ ModifiedOf(el) > L
    \/ IsTombstone(el) /\ el._deleted > L
ServerChanged(t) ==
    {el._created : el \in {x \in Elements(call.arg.S[t]) \cup Elements(call.arg.SD[t]) :
                               ChangedSince(x, call.arg.data.sync)}}
ModifiedSent(t) ==
    DOMAIN ClientSent(t).modified
      \ (ServerChanged(t) \cup DOMAIN ClientSent(t).new \cup DOMAIN ClientSent(t).deleted)
\* Exactly one authoritative record of this id, not modified after LastSync,
\* and older than the client's version.
Replaceable(t, id) ==
    /\ Len(Held(call.arg.S[t], id)) = 1
    /\ ModifiedOf(Held(call.arg.S[t], id)[1]) <= call.arg.data.sync
    /\ ModifiedOf(ClientSent(t).modified[id]) > ModifiedOf(Held(call.arg.S[t], id)[1])

SubmittedNew(t) == DOMAIN ClientSent(t).new
Unknown(t, id) ==
    id \notin ElementIds(call.arg.S[t]) \cup ElementIds(call.arg.SD[t])
SubmittedTwice(t) ==
    IF Queried THEN {id \in SubmittedNew(t) \cap SubmittedNew(t)' : Unknown(t, id)}
    ELSE {}
OneAccepted(t, id) ==
    /\ Len(Held(srv[t], id)) = 1
    /\ Len(Held(srv'[t], id)) = 1
    /\ Held(srv'[t], id)[1] \in {ClientSent(t).new[id], ClientSent(t)'.new[id]}

C31_FailedRequestSettles ==
    \A p \in Procs : pc[p] # "hung"

\* C32: an init, save or edit whose sync failed has raised the error to its
\* caller: it has not completed normally with a return value.
C32_SyncFailureRaised ==
    \A p \in Procs :
        (out[p].op \in {"init", "save", "edit"} /\ out[p].err # "")
            => out[p].settled = "rejected"

\* The records of `set`, descending by `_created`.
RECURSIVE Descending(_)
Descending(set) ==
    IF set = {} THEN <<>>
    ELSE LET x == CHOOSE y \in set : \A z \in set : y._created >= z._created
         IN <<x>> \o Descending(set \ {x})
\* The serialization fixed by the record sets alone: the types in configured
\* order, the records of each type descending by `_created`.
Canonical(tys) ==
    DataString([t \in TypeNames |-> Descending(Elements(tys[t]))])

\* C33: the serialization of the store, and so its hash, depends only on the
\* set of records it holds, not on the order in which they were added.
C33_CanonicalDeterminism ==
    /\ DataString(types[1]) = Canonical(types[1])
    /\ Hash(DataString(types[1])) = Hash(Canonical(types[1]))
    /\ \A t \in TypeNames : Cardinality(Elements(types[1][t])) = Len(types[1][t])
\* A record was added last whose place is before the records added earlier.
C33_Witness ==
    /\ call.op = "add" /\ call.err = ""
    /\ call.arg.type \in TypeNames
    /\ Len(types[1][call.arg.type]) > 1
    /\ types[1][call.arg.type][1] = call.arg.rec

\* The wait of a save or edit for its POST ends otherwise than by the answer.
PostFails(p) ==
    /\ pc[p] = "mut_wait" /\ ~loc[p].rdone
    /\ pc'[p] \notin {"mut_wait", "sync_cmp"}

\* C34: when the POST of a save or edit fails the call ends as failed, and the
\* record store and the plaintext under K-data are without the change the
\* call was making.
C34_FailedPostLeavesLocalState ==
    [][\A p \in Procs :
         PostFails(p) =>
            /\ pc'[p] = "idle" /\ out'[p].settled = "rejected"
            /\ loc[p].inst.rec \notin Elements(types'[cl[p]][loc[p].inst.type])
            /\ lsData'[cl[p]] # <<Encrypt(loc[p].snap)>>]_vars

\* The digests of the result are strings, and equal / different.
EqualStrings(result) ==
    result.local # None /\ result.remote # None /\ result.local = result.remote
DifferentStrings(result) ==
    result.local # None /\ result.remote # None /\ result.local # result.remote

\* C35: on a DSSyncResult with equal digests `succeeds` is true and `sync` is
\* then a timestamp, the one the first evaluation set, which is also what
\* _sync persists as LastSync; with different digests `succeeds` is false,
\* `hash` is the empty string and `sync` keeps its default.
C35_SucceedsStampsOnce ==
    /\ (call.op = "succeeds" /\ EqualStrings(call.arg)) =>
          /\ call.ret.value = TRUE
          /\ TheResult.sync >= 1
          /\ call.arg.sync # NotConfirmed(call.arg.class)
                => TheResult.sync = call.arg.sync
    /\ (call.op = "succeeds" /\ DifferentStrings(call.arg)) =>
          /\ call.ret.value = FALSE
          /\ TheResult.sync = NotConfirmed(call.arg.class)
    /\ (call.op = "hash" /\ DifferentStrings(call.arg)) =>
          /\ call.ret.value = None
          /\ TheResult.sync = NotConfirmed(call.arg.class)
    /\ call.op = "persist" =>
          /\ LastSync(1) = TheResult.sync
          /\ LastSync(1) >= 1

\* C36: the delta compiled for a client that never synced lists, under rank
\* `deleted` of its type, the id of every record removed with a tombstone.
C36_DeletionsReported ==
    (call.op = "compile" /\ call.arg = 0) =>
        \A t \in TypeNames : \A id \in ElementIds(deleted[1][t]) :
            id \in DOMAIN RankOf(RanksOf(call.ret.instances, t), "deleted")

\* A call of p returns a successful result at this step.
ReturnsSuccess(p) ==
    /\ pc[p] # "idle" /\ pc'[p] = "idle"
    /\ out'[p].op \in {"init", "save", "edit", "sync"}
    /\ out'[p].settled = "resolved" /\ out'[p].err = ""

\* C37: when init, save, edit or sync returns a successful result, K-data
\* holds the encrypted serialization of the client's records in memory.
C37_KDataMirrorsMemory ==
    [][\A p \in Procs :
         ReturnsSuccess(p) =>
            lsData'[cl[p]] = <<Encrypt(DataString(types'[cl[p]]))>>]_vars

\* What the store would be had the last _remove been called with the other
\* value of `del`.
OtherRemove(s, arg) == Remove(s, arg.inst, ~arg.del).store
Removes == call'.op = "remove" /\ ncalls' # ncalls /\ call'.err = ""

\* C38: a _remove leaves the same data string, and so the same local hash,
\* with a tombstone as without, while the tombstone containers differ.
C38_TombstonesOutsideHash ==
    [][Removes =>
         /\ Hash(DataString(types'[1]))
               = Hash(DataString(OtherRemove(Store(1), call'.arg).types))
         /\ deleted'[1] # OtherRemove(Store(1), call'.arg).deleted
         /\ Hash(DataString(types'[1])) # Hash(DataString(types[1]))]_vars
\* A record was removed with a tombstone while another stayed.
C38_Witness ==
    /\ call.op = "remove" /\ call.err = "" /\ call.arg.del
    /\ \E t \in TypeNames : Len(types[1][t]) > 0 /\ Len(deleted[1][t]) > 0

\* Descending by `_created`, equal neighbours allowed.
SortedDescending(container) ==
    \A i \in 1..Len(container) : \A j \in i..Len(container) :
        container[i]._created >= container[j]._created
\* The elements of the container with another `_created`, in their order.
Others(container, id) == SelectSeq(container, LAMBDA r : r._created # id)

\* C39: replace() on a container with no record or several records of the new
\* instance's `_created` leaves the container as it is and echoes an error
\* code; with one such record it puts the new instance in its place, the other
\* records stay, and the container is sorted descending by `_created`; add()
\* inserts the instance and leaves the container sorted descending.
C39_ServerHelpers ==
    /\ call.op = "srv_replace" =>
          IF Len(Held(call.arg.container, call.arg.inst._created)) = 1
             THEN /\ call.err = ""
                  /\ Held(srv[TypeList[1]], call.arg.inst._created) = <<call.arg.inst>>
                  /\ Others(srv[TypeList[1]], call.arg.inst._created)
                       = Others(call.arg.container, call.arg.inst._created)
                  /\ SortedDescending(srv[TypeList[1]])
             ELSE /\ call.err # ""
                  /\ srv[TypeList[1]] = call.arg.container
    /\ call.op = "srv_add" =>
          /\ Len(srv[TypeList[1]]) = Len(call.arg.container) + 1
          /\ Others(srv[TypeList[1]], call.arg.inst._created)
               = Others(call.arg.container, call.arg.inst._created)
          /\ call.arg.inst \in Elements(srv[TypeList[1]])
          /\ SortedDescending(srv[TypeList[1]])
\* replace() has refused on a container that holds two records of one id, with
\* a record of a greater id before them.
C39_Witness ==
    /\ call.op = "srv_replace" /\ call.err = "CANNOT_REPLACE_MULTI_MACH"
    /\ Len(srv[TypeList[1]]) > 2
    /\ srv[TypeList[1]][1]._created > srv[TypeList[1]][Len(srv[TypeList[1]])]._created
====
